---- MODULE Spec2Model ----
(***************************************************************************)
(* Model of the gopathfs request handlers (src/gopathfs/dir.go and         *)
(* src/gopathfs/file.go): OpenDir, Mkdir, Rmdir, Open, Create, Unlink and  *)
(* Rename, over a model of the native filesystem they delegate to.         *)
(*                                                                         *)
(* Paths are Go strings, modelled as sequences of one-character strings so *)
(* that strings.HasPrefix, the slice expression s[n:] and filepath.Join    *)
(* are computed character by character, as the handlers compute them.      *)
(***************************************************************************)
EXTENDS Integers, Sequences, FiniteSets, TLC

VARIABLES cfg, fs, cwd, alive, op, ret, calls

vars == <<cfg, fs, cwd, alive, op, ret, calls>>

(* ------------------------------------------------------------------ *)
(* Bounds                                                              *)
(* ------------------------------------------------------------------ *)
MaxVendors == 2

MaxFiles == 2

(* ------------------------------------------------------------------ *)
(* Strings and paths                                                   *)
(* ------------------------------------------------------------------ *)
pathSeparator == <<"/">>

HasPrefix(s, p) == Len(s) >= Len(p) /\ SubSeq(s, 1, Len(p)) = p

\* s[n:] ; Go panics (slice bounds out of range) when n > len(s)
CanSlice(s, n) == n <= Len(s)

SliceFrom(s, n) == SubSeq(s, n + 1, Len(s))

RECURSIVE SplitFrom(_, _, _)
SplitFrom(s, i, cur) ==
    IF i > Len(s) THEN <<cur>>
    ELSE IF s[i] = "/" THEN <<cur>> \o SplitFrom(s, i + 1, <<>>)
    ELSE SplitFrom(s, i + 1, Append(cur, s[i]))

RECURSIVE JoinSegs(_)
JoinSegs(segs) ==
    IF segs = <<>> THEN <<>>
    ELSE IF Len(segs) = 1 THEN segs[1]
    ELSE segs[1] \o pathSeparator \o JoinSegs(Tail(segs))

RECURSIVE CleanSegs(_, _, _)
CleanSegs(segs, out, rooted) ==
    IF segs = <<>> THEN out
    ELSE LET s == Head(segs)
             rest == Tail(segs)
         IN  IF s = <<>> \/ s = <<".">> THEN CleanSegs(rest, out, rooted)
             ELSE IF s = <<".", ".">>
                  THEN IF out # <<>> /\ out[Len(out)] # <<".", ".">>
                       THEN CleanSegs(rest, SubSeq(out, 1, Len(out) - 1), rooted)
                       ELSE IF rooted THEN CleanSegs(rest, out, rooted)
                       ELSE CleanSegs(rest, Append(out, s), rooted)
             ELSE CleanSegs(rest, Append(out, s), rooted)

\* filepath.Clean; a path with no dot, no doubled and no trailing separator is
\* already clean
NeedsClean(p) ==
    \E i \in 1..Len(p) : p[i] = "." \/ (p[i] = "/" /\ (i = Len(p) \/ p[i + 1] = "/"))

Clean(p) ==
    IF p = <<>> THEN <<".">>
    ELSE IF ~NeedsClean(p) THEN p
    ELSE LET rooted == p[1] = "/"
             body == JoinSegs(CleanSegs(SplitFrom(p, 1, <<>>), <<>>, rooted))
             res == IF rooted THEN pathSeparator \o body ELSE body
         IN  IF res = <<>> THEN <<".">> ELSE res

\* filepath.Join: empty elements are ignored, the rest joined and cleaned
Join(elems) ==
    LET ne == SelectSeq(elems, LAMBDA e : e # <<>>)
    IN  IF ne = <<>> THEN <<>> ELSE Clean(JoinSegs(ne))

IsAbs(p) == p # <<>> /\ p[1] = "/"

\* the last element of a clean path, and the path of its parent directory
RECURSIVE LastSlash(_, _)
LastSlash(p, i) == IF i = 0 \/ p[i] = "/" THEN i ELSE LastSlash(p, i - 1)

Base(p) == SliceFrom(p, LastSlash(p, Len(p)))

Dir(p) ==
    LET up == SubSeq(p, 1, LastSlash(p, Len(p)) - 1)
    IN  IF up = <<>> THEN (IF IsAbs(p) THEN pathSeparator ELSE <<".">>) ELSE up

(* ------------------------------------------------------------------ *)
(* Configuration (gpf.cfg, gpf.dirs)                                   *)
(* ------------------------------------------------------------------ *)
Workspace == <<"/", "w">>

GoSDKDir == <<"/", "g">>

GoPkgPrefix == <<"s", "r", "c">>

Genfiles == <<"b", "a", "z", "e", "l", "-", "g", "e", "n", "f", "i", "l", "e", "s">>

GOROOT == <<"G", "O", "R", "O", "O", "T">>

VendorNames == << <<"v">>, <<"u">>, <<"y">> >>

VendorLists == {SubSeq(VendorNames, 1, n) : n \in 0..MaxVendors}

FallThroughLists == {<< <<"t">> >>}

Range(s) == {s[i] : i \in DOMAIN s}

\* the configurations: FallThroughSet holds the names of FallThrough
Configs ==
    {[Vendors |-> v, FallThrough |-> f, FallThroughSet |-> Range(f)] :
        v \in VendorLists, f \in FallThroughLists}

FallThroughSet == cfg.FallThroughSet

(* ------------------------------------------------------------------ *)
(* The native filesystem: fs maps each existing absolute path to      *)
(* [dir, r, w]; relative paths resolve against the process's cwd.     *)
(* ------------------------------------------------------------------ *)
DirAttr == [dir |-> TRUE, r |-> TRUE, w |-> TRUE]

FileAttr(r, w) == [dir |-> FALSE, r |-> r, w |-> w]

Abs(p) == IF p = <<>> \/ IsAbs(p) THEN p ELSE Join(<<cwd, p>>)

IsUnder(p, a) == HasPrefix(p, IF a = pathSeparator THEN a ELSE a \o pathSeparator) /\ p # a

RECURSIVE Ancestors(_)
Ancestors(p) ==
    IF p = pathSeparator \/ ~IsAbs(p) THEN {}
    ELSE {Dir(p)} \cup Ancestors(Dir(p))

Children(f, d) == {p \in DOMAIN f : p # pathSeparator /\ Dir(p) = d}

Subtree(f, a) == {p \in DOMAIN f : p = a \/ IsUnder(p, a)}

\* os.Stat
StatOK(p) == Abs(p) \in DOMAIN fs

\* unix.Access(name, W_OK)
AccessW(p) == StatOK(p) /\ fs[Abs(p)].w

O_ANYWRITE == {"O_WRONLY", "O_RDWR"}

OpenFlags == {"O_RDONLY", "O_WRONLY", "O_RDWR"}

\* os.OpenFile(name, flags, 0) without O_CREATE
OpenFileOK(p, flags) ==
    /\ StatOK(p)
    /\ LET e == fs[Abs(p)]
       IN  IF e.dir THEN flags = "O_RDONLY"
           ELSE /\ (flags \in {"O_RDONLY", "O_RDWR"} => e.r)
                /\ (flags \in {"O_WRONLY", "O_RDWR"} => e.w)

\* os.Open(dir) followed by Readdir(-1)
ReaddirOK(d) == StatOK(d) /\ fs[Abs(d)].dir

FileInfo(p) == [Name |-> Base(p), IsDir |-> fs[p].dir]

Perms(S) == {s \in [1..Cardinality(S) -> S] : \A i, j \in DOMAIN s : i # j => s[i] # s[j]}

\* every order in which Readdir may return the directory's entries
Listings(d) ==
    IF ReaddirOK(d) THEN Perms({FileInfo(p) : p \in Children(fs, Abs(d))})
    ELSE {<<>>}

\* one listing for each directory of D
RECURSIVE ReaddirChoices(_)
ReaddirChoices(D) ==
    IF D = {} THEN {<<>>}
    ELSE LET d == CHOOSE e \in D : TRUE
         IN  {(d :> l) @@ rd : l \in Listings(d), rd \in ReaddirChoices(D \ {d})}

Modes == {"0644", "0444"}

ModeAttr(mode) == FileAttr(TRUE, mode = "0644")

\* os.Create(name) = OpenFile(name, O_RDWR|O_CREATE|O_TRUNC, 0666)
CreateOK(p) ==
    LET a == Abs(p)
    IN  /\ a # <<>> /\ a # pathSeparator
        /\ Dir(a) \in DOMAIN fs /\ fs[Dir(a)].dir
        /\ a \in DOMAIN fs => (~fs[a].dir /\ fs[a].r /\ fs[a].w)

\* the tree after os.Create and os.Chmod(name, mode)
FsCreate(p, mode) ==
    LET a == Abs(p)
    IN  [q \in DOMAIN fs \cup {a} |-> IF q = a THEN ModeAttr(mode) ELSE fs[q]]

\* os.Remove: a file or an empty directory
RemoveOK(p) ==
    LET a == Abs(p)
    IN  /\ a \in DOMAIN fs /\ a # pathSeparator
        /\ fs[a].dir => Children(fs, a) = {}

FsRemove(p) == [q \in DOMAIN fs \ {Abs(p)} |-> fs[q]]

\* os.MkdirAll: fails when the path or one of its ancestors is a file
MkdirAllOK(p) ==
    LET a == Abs(p)
    IN  /\ a # <<>>
        /\ \A q \in {a} \cup Ancestors(a) : q \in DOMAIN fs => fs[q].dir

FsMkdirAll(p) ==
    LET a == Abs(p)
    IN  [q \in DOMAIN fs \cup {a} \cup Ancestors(a) |->
            IF q \in DOMAIN fs THEN fs[q] ELSE DirAttr]

\* os.RemoveAll: nil when the path does not exist; fails when an ancestor
\* is not a directory
RemoveAllOK(p) ==
    LET a == Abs(p)
    IN  /\ a # pathSeparator
        /\ \A q \in Ancestors(a) : q \in DOMAIN fs => fs[q].dir

FsRemoveAll(p) == [q \in DOMAIN fs \ Subtree(fs, Abs(p)) |-> fs[q]]

\* os.Rename
RenameOK(old, new) ==
    LET ao == Abs(old)
        an == Abs(new)
    IN  /\ ao \in DOMAIN fs /\ ao # pathSeparator
        /\ an # <<>> /\ an # pathSeparator
        /\ Dir(an) \in DOMAIN fs /\ fs[Dir(an)].dir
        /\ ~IsUnder(an, ao)
        /\ an \in DOMAIN fs => (~fs[an].dir /\ ~fs[ao].dir)

FsRename(old, new) ==
    LET ao == Abs(old)
        an == Abs(new)
        moved == Subtree(fs, ao)
        Dest(q) == an \o SliceFrom(q, Len(ao))
        kept == DOMAIN fs \ moved
    IN  IF ao = an THEN fs
        ELSE [q \in kept \cup {Dest(m) : m \in moved} |->
                IF \E m \in moved : Dest(m) = q
                THEN fs[CHOOSE m \in moved : Dest(m) = q]
                ELSE fs[q]]

\* one native call, as recorded in the request's trace
Call(fn, path, path2, ok) == [fn |-> fn, path |-> path, path2 |-> path2, ok |-> ok]

(* ------------------------------------------------------------------ *)
(* dir.go                                                              *)
(* ------------------------------------------------------------------ *)
DirEntry(name, isDir) == [Name |-> name, Mode |-> IF isDir THEN "S_IFDIR" ELSE "S_IFREG"]

Result(entries, status, trace) == [entries |-> entries, status |-> status, calls |-> trace]

\* the inner loop of openUnderlyingDir: TRUE when it reaches "continue outterLoop"
RECURSIVE InnerSkip(_, _, _, _)
InnerSkip(fi, excludes, entries, j) ==
    IF j > Len(entries) THEN FALSE
    ELSE IF fi.Name = entries[j].Name THEN TRUE
    ELSE IF fi.Name \in excludes THEN TRUE
    ELSE InnerSkip(fi, excludes, entries, j + 1)

\* the outer loop of openUnderlyingDir over the entries Readdir returned
RECURSIVE MergeLoop(_, _, _, _)
MergeLoop(fis, i, excludes, entries) ==
    IF i > Len(fis) THEN entries
    ELSE LET fi == fis[i]
         IN  IF fi.IsDir /\ InnerSkip(fi, excludes, entries, 1)
             THEN MergeLoop(fis, i + 1, excludes, entries)
             ELSE MergeLoop(fis, i + 1, excludes, Append(entries, DirEntry(fi.Name, fi.IsDir)))

\* rd[dir] is what Readdir returns for dir in this request
openUnderlyingDir(dir, excludes, entries, rd) ==
    IF ~ReaddirOK(dir)
    THEN Result(entries, "ENOENT", <<Call("Readdir", dir, <<>>, FALSE)>>)
    ELSE Result(MergeLoop(rd[dir], 1, excludes, entries), "OK",
                <<Call("Readdir", dir, <<>>, TRUE)>>)

openFirstPartyChildDir(name, rd) ==
    LET rel == SliceFrom(name, Len(GoPkgPrefix \o pathSeparator))
        a == openUnderlyingDir(Join(<<Workspace, rel>>), FallThroughSet, <<>>, rd)
        b == openUnderlyingDir(Join(<<Workspace, Genfiles, rel>>), FallThroughSet, a.entries, rd)
    IN  Result(b.entries, "OK", a.calls \o b.calls)

openVendorChildDir(vendor, name, entries, rd) ==
    LET a == openUnderlyingDir(Join(<<Workspace, vendor, name>>), FallThroughSet, entries, rd)
        b == openUnderlyingDir(Join(<<Workspace, Genfiles, vendor, name>>), FallThroughSet,
                               a.entries, rd)
    IN  Result(b.entries, "OK", a.calls \o b.calls)

RECURSIVE TopVendorLoop(_, _, _, _)
TopVendorLoop(i, entries, trace, rd) ==
    IF i > Len(cfg.Vendors) THEN Result(entries, "OK", trace)
    ELSE LET r == openUnderlyingDir(Join(<<Workspace, cfg.Vendors[i]>>), FallThroughSet,
                                    entries, rd)
         IN  TopVendorLoop(i + 1, r.entries, trace \o r.calls, rd)

RECURSIVE TopFallThroughLoop(_, _, _)
TopFallThroughLoop(i, entries, trace) ==
    IF i > Len(cfg.FallThrough) THEN Result(entries, "OK", trace)
    ELSE LET dir == Join(<<Workspace, cfg.FallThrough[i]>>)
         IN  IF ~StatOK(dir)
             THEN TopFallThroughLoop(i + 1, entries, Append(trace, Call("Stat", dir, <<>>, FALSE)))
             ELSE TopFallThroughLoop(i + 1,
                      Append(entries, DirEntry(Base(dir), fs[Abs(dir)].dir)),
                      Append(trace, Call("Stat", dir, <<>>, TRUE)))

openTopDir(rd) ==
    LET v == TopVendorLoop(1, <<DirEntry(GoPkgPrefix, TRUE)>>, <<>>, rd)
    IN  TopFallThroughLoop(1, v.entries, v.calls)

IgnoredNames == {Genfiles}

isIgnored(name) == name \in IgnoredNames

isVendorDir(name) == name \in Range(cfg.Vendors)

RECURSIVE FirstPartyLoop(_, _, _)
FirstPartyLoop(fis, i, entries) ==
    IF i > Len(fis) THEN entries
    ELSE LET fi == fis[i]
         IN  IF isIgnored(fi.Name) \/ isVendorDir(fi.Name) \/ ~fi.IsDir
             THEN FirstPartyLoop(fis, i + 1, entries)
             ELSE FirstPartyLoop(fis, i + 1, Append(entries, DirEntry(fi.Name, TRUE)))

openFirstPartyDir(rd) ==
    IF ~ReaddirOK(Workspace)
    THEN Result(<<>>, "ENOENT", <<Call("Readdir", Workspace, <<>>, FALSE)>>)
    ELSE Result(FirstPartyLoop(rd[Workspace], 1, <<>>), "OK",
                <<Call("Readdir", Workspace, <<>>, TRUE)>>)

\* OpenDir's loop over cfg.FallThrough; done when it returned from inside the loop
RECURSIVE DirFallThroughLoop(_, _, _, _, _)
DirFallThroughLoop(name, i, entries, trace, rd) ==
    IF i > Len(cfg.FallThrough) THEN [done |-> FALSE, entries |-> entries, calls |-> trace]
    ELSE LET dir == cfg.FallThrough[i]
         IN  IF dir = name \/ HasPrefix(name, dir)
             THEN LET r == openUnderlyingDir(Join(<<Workspace, name>>), {}, entries, rd)
                  IN  IF r.status = "OK"
                      THEN [done |-> TRUE, entries |-> r.entries, calls |-> trace \o r.calls]
                      ELSE DirFallThroughLoop(name, i + 1, r.entries, trace \o r.calls, rd)
             ELSE DirFallThroughLoop(name, i + 1, entries, trace, rd)

\* OpenDir's loop over cfg.Vendors
RECURSIVE DirVendorLoop(_, _, _, _, _)
DirVendorLoop(name, i, entries, trace, rd) ==
    IF i > Len(cfg.Vendors) THEN Result(<<>>, "ENOENT", trace)
    ELSE LET r == openVendorChildDir(cfg.Vendors[i], name, entries, rd)
         IN  IF r.status = "OK" THEN Result(r.entries, "OK", trace \o r.calls)
             ELSE DirVendorLoop(name, i + 1, r.entries, trace \o r.calls, rd)

OpenDirResult(name, rd) ==
    IF name = <<>> THEN openTopDir(rd)
    ELSE IF name = GoPkgPrefix THEN openFirstPartyDir(rd)
    ELSE IF HasPrefix(name, GoPkgPrefix \o pathSeparator) THEN openFirstPartyChildDir(name, rd)
    ELSE LET ft == DirFallThroughLoop(name, 1, <<>>, <<>>, rd)
         IN  IF ft.done THEN Result(ft.entries, "OK", ft.calls)
             ELSE DirVendorLoop(name, 1, ft.entries, ft.calls, rd)

\* every directory OpenDir(name) may read
DirsRead(name) ==
    {Workspace, Join(<<Workspace, name>>)}
    \cup {Join(<<Workspace, cfg.Vendors[i]>>) : i \in DOMAIN cfg.Vendors}
    \cup {Join(<<Workspace, cfg.Vendors[i], name>>) : i \in DOMAIN cfg.Vendors}
    \cup {Join(<<Workspace, Genfiles, cfg.Vendors[i], name>>) : i \in DOMAIN cfg.Vendors}
    \cup (IF HasPrefix(name, GoPkgPrefix \o pathSeparator)
          THEN LET rel == SliceFrom(name, Len(GoPkgPrefix \o pathSeparator))
               IN  {Join(<<Workspace, rel>>), Join(<<Workspace, Genfiles, rel>>)}
          ELSE {})

Request(fn, name, newName, flags, mode) ==
    [fn |-> fn, name |-> name, newName |-> newName, flags |-> flags, mode |-> mode]

Reply(status, entries, file) == [status |-> status, entries |-> entries, file |-> file]

OpenDir(name) ==
    /\ alive
    /\ \E rd \in ReaddirChoices(DirsRead(name)) :
         LET r == OpenDirResult(name, rd)
         IN  /\ ret' = Reply(r.status, r.entries, <<>>)
             /\ calls' = r.calls
    /\ op' = Request("OpenDir", name, <<>>, "", "")
    /\ UNCHANGED <<cfg, fs, cwd, alive>>

mkFirstPartyChildDir(name) == Join(<<Workspace, name>>)

mkThirdPartyChildDir(name) == Join(<<Workspace, cfg.Vendors[1], name>>)

\* Mkdir: the path handed to os.MkdirAll, or none when there is no vendor
Mkdir(name) ==
    LET prefix == GoPkgPrefix \o pathSeparator
        first == HasPrefix(name, prefix)
        target == IF first THEN mkFirstPartyChildDir(SliceFrom(name, Len(prefix)))
                  ELSE mkThirdPartyChildDir(name)
    IN  /\ alive
        /\ op' = Request("Mkdir", name, <<>>, "", "")
        /\ IF ~first /\ Len(cfg.Vendors) = 0
           THEN /\ ret' = Reply("ENOENT", <<>>, <<>>)
                /\ calls' = <<>>
                /\ fs' = fs
           ELSE IF MkdirAllOK(target)
           THEN /\ ret' = Reply("OK", <<>>, <<>>)
                /\ calls' = <<Call("MkdirAll", target, <<>>, TRUE)>>
                /\ fs' = FsMkdirAll(target)
           ELSE /\ ret' = Reply("ENOENT", <<>>, <<>>)
                /\ calls' = <<Call("MkdirAll", target, <<>>, FALSE)>>
                /\ fs' = fs
        /\ UNCHANGED <<cfg, cwd, alive>>

rmFirstPartyChildDir(name) == Join(<<Workspace, name>>)

rmThirdPartyChildDir(name) == Join(<<Workspace, cfg.Vendors[1], name>>)

\* Rmdir: the path handed to os.RemoveAll, or none when there is no vendor
Rmdir(name) ==
    LET prefix == GoPkgPrefix \o pathSeparator
        first == HasPrefix(name, prefix)
        target == IF first THEN rmFirstPartyChildDir(SliceFrom(name, Len(prefix)))
                  ELSE rmThirdPartyChildDir(name)
    IN  /\ alive
        /\ op' = Request("Rmdir", name, <<>>, "", "")
        /\ IF ~first /\ Len(cfg.Vendors) = 0
           THEN /\ ret' = Reply("ENOENT", <<>>, <<>>)
                /\ calls' = <<>>
                /\ fs' = fs
           ELSE IF RemoveAllOK(target)
           THEN /\ ret' = Reply("OK", <<>>, <<>>)
                /\ calls' = <<Call("RemoveAll", target, <<>>, TRUE)>>
                /\ fs' = FsRemoveAll(target)
           ELSE /\ ret' = Reply("ENOENT", <<>>, <<>>)
                /\ calls' = <<Call("RemoveAll", target, <<>>, FALSE)>>
                /\ fs' = fs
        /\ UNCHANGED <<cfg, cwd, alive>>

(* ------------------------------------------------------------------ *)
(* file.go                                                             *)
(* ------------------------------------------------------------------ *)
FileResult(status, file, trace) == [status |-> status, file |-> file, calls |-> trace]

openUnderlyingFile(name, flags) ==
    IF ~StatOK(name)
    THEN FileResult("ENOENT", <<>>, <<Call("Stat", name, <<>>, FALSE)>>)
    ELSE IF flags \in O_ANYWRITE /\ ~AccessW(name)
    THEN FileResult("EPERM", <<>>,
                    <<Call("Stat", name, <<>>, TRUE), Call("Access", name, <<>>, FALSE)>>)
    ELSE LET pre == <<Call("Stat", name, <<>>, TRUE)>> \o
                    (IF flags \in O_ANYWRITE THEN <<Call("Access", name, <<>>, TRUE)>>
                     ELSE <<>>)
         IN  IF ~OpenFileOK(name, flags)
             THEN FileResult("ENOENT", <<>>, Append(pre, Call("OpenFile", name, <<>>, FALSE)))
             ELSE FileResult("OK", name, Append(pre, Call("OpenFile", name, <<>>, TRUE)))

openFirstPartyChildFile(name, flags) ==
    LET rel == SliceFrom(name, Len(GoPkgPrefix \o pathSeparator))
    IN  IF rel = GOROOT \/ HasPrefix(rel, GOROOT \o pathSeparator)
        THEN LET r == openUnderlyingFile(Join(<<GoSDKDir, SliceFrom(rel, Len(GOROOT))>>), flags)
             IN  IF r.status = "OK" THEN r ELSE FileResult("ENOENT", <<>>, r.calls)
        ELSE LET a == openUnderlyingFile(Join(<<Workspace, rel>>), flags)
             IN  IF a.status = "OK" THEN a
                 ELSE LET b == openUnderlyingFile(Join(<<Workspace, Genfiles, rel>>), flags)
                      IN  FileResult(b.status, b.file, a.calls \o b.calls)

\* openVendorChildFile with the genfiles shadow tried before the vendor tree
openVendorChildFile_ShadowFirst(vendor, name, flags) ==
    LET a == openUnderlyingFile(Join(<<Workspace, Genfiles, vendor, name>>), flags)
    IN  IF a.status = "OK" THEN a
        ELSE LET b == openUnderlyingFile(Join(<<Workspace, vendor, name>>), flags)
             IN  FileResult(b.status, b.file, a.calls \o b.calls)

openVendorChildFile(vendor, name, flags) ==
    LET a == openUnderlyingFile(Join(<<Workspace, vendor, name>>), flags)
    IN  IF a.status = "OK" THEN a
        ELSE LET b == openUnderlyingFile(Join(<<Workspace, Genfiles, vendor, name>>), flags)
             IN  FileResult(b.status, b.file, a.calls \o b.calls)

\* Open's loop over cfg.Vendors
RECURSIVE FileVendorLoop(_, _, _, _)
FileVendorLoop(name, flags, i, trace) ==
    IF i > Len(cfg.Vendors) THEN FileResult("ENOENT", <<>>, trace)
    ELSE LET r == openVendorChildFile(cfg.Vendors[i], name, flags)
         IN  IF r.status = "OK" THEN FileResult("OK", r.file, trace \o r.calls)
             ELSE FileVendorLoop(name, flags, i + 1, trace \o r.calls)

\* the first entry of cfg.FallThrough that matches name, 0 when none does
RECURSIVE FallThroughMatch(_, _)
FallThroughMatch(name, i) ==
    IF i > Len(cfg.FallThrough) THEN 0
    ELSE IF cfg.FallThrough[i] = name \/ HasPrefix(name, cfg.FallThrough[i]) THEN i
    ELSE FallThroughMatch(name, i + 1)

OpenResult(name, flags) ==
    IF HasPrefix(name, GoPkgPrefix \o pathSeparator)
    THEN openFirstPartyChildFile(name, flags)
    ELSE IF FallThroughMatch(name, 1) # 0
    THEN LET r == openUnderlyingFile(Join(<<Workspace, name>>), flags)
         IN  IF r.status = "OK" THEN r ELSE FileResult("ENOENT", <<>>, r.calls)
    ELSE FileVendorLoop(name, flags, 1, <<>>)

Open(name, flags) ==
    /\ alive
    /\ LET r == OpenResult(name, flags)
       IN  /\ ret' = Reply(r.status, <<>>, r.file)
           /\ calls' = r.calls
    /\ op' = Request("Open", name, <<>>, flags, "")
    /\ UNCHANGED <<cfg, fs, cwd, alive>>

createFirstPartyChildFile(name) == Join(<<Workspace, name>>)

createThirdPartyChildFile(name) == Join(<<Workspace, cfg.Vendors[1], name>>)

\* Create: the path handed to os.Create and os.Chmod, or none when there is no vendor
Create(name, flags, mode) ==
    LET prefix == GoPkgPrefix \o pathSeparator
        first == HasPrefix(name, prefix)
        target == IF first THEN createFirstPartyChildFile(SliceFrom(name, Len(prefix)))
                  ELSE createThirdPartyChildFile(name)
    IN  /\ alive
        /\ op' = Request("Create", name, <<>>, flags, mode)
        /\ IF ~first /\ Len(cfg.Vendors) = 0
           THEN /\ ret' = Reply("EIO", <<>>, <<>>)
                /\ calls' = <<>>
                /\ fs' = fs
           ELSE IF CreateOK(target)
           THEN /\ ret' = Reply("OK", <<>>, target)
                /\ calls' = <<Call("Create", target, <<>>, TRUE), Call("Chmod", target, <<>>, TRUE)>>
                /\ fs' = FsCreate(target, mode)
           ELSE /\ ret' = Reply("EIO", <<>>, <<>>)
                /\ calls' = <<Call("Create", target, <<>>, FALSE)>>
                /\ fs' = fs
        /\ UNCHANGED <<cfg, cwd, alive>>

\* unlinkUnderlyingFile: [status, tree after, call]
unlinkUnderlyingFile(name) ==
    IF RemoveOK(name)
    THEN [status |-> "OK", fs |-> FsRemove(name), calls |-> <<Call("Remove", name, <<>>, TRUE)>>]
    ELSE [status |-> "EIO", fs |-> fs, calls |-> <<Call("Remove", name, <<>>, FALSE)>>]

\* Unlink's loop over cfg.Vendors: name is reassigned in every iteration
RECURSIVE UnlinkVendorLoop(_, _, _)
UnlinkVendorLoop(name, i, trace) ==
    IF i > Len(cfg.Vendors) THEN [status |-> "ENOSYS", fs |-> fs, calls |-> trace]
    ELSE LET next == Join(<<Workspace, cfg.Vendors[i], name>>)
             r == unlinkUnderlyingFile(next)
         IN  IF r.status = "OK" THEN [r EXCEPT !.calls = trace \o r.calls]
             ELSE UnlinkVendorLoop(next, i + 1, trace \o r.calls)

UnlinkResult(name) ==
    LET prefix == GoPkgPrefix \o pathSeparator
    IN  IF HasPrefix(name, prefix)
        THEN unlinkUnderlyingFile(Join(<<Workspace, SliceFrom(name, Len(prefix))>>))
        ELSE UnlinkVendorLoop(name, 1, <<>>)

Unlink(name) ==
    /\ alive
    /\ LET r == UnlinkResult(name)
       IN  /\ ret' = Reply(r.status, <<>>, <<>>)
           /\ calls' = r.calls
           /\ fs' = r.fs
    /\ op' = Request("Unlink", name, <<>>, "", "")
    /\ UNCHANGED <<cfg, cwd, alive>>

\* Rename's loop over cfg.Vendors: oldName is reassigned in every iteration,
\* newName only in the iteration that breaks
RECURSIVE RenameVendorLoop(_, _, _, _)
RenameVendorLoop(oldName, newName, i, trace) ==
    IF i > Len(cfg.Vendors) THEN [old |-> oldName, new |-> newName, calls |-> trace]
    ELSE LET o == Join(<<cfg.Vendors[i], oldName>>)
         IN  IF StatOK(o)
             THEN [old |-> o, new |-> Join(<<cfg.Vendors[i], newName>>),
                   calls |-> Append(trace, Call("Stat", o, <<>>, TRUE))]
             ELSE RenameVendorLoop(o, newName, i + 1, Append(trace, Call("Stat", o, <<>>, FALSE)))

\* RenameFirstParty resolving under the first vendor when one is configured
RenameFirstParty_UnderVendor(oldName, newName) ==
    LET root == IF cfg.Vendors = <<>> THEN <<>> ELSE cfg.Vendors[1]
    IN  [old |-> Join(<<Workspace, root, SliceFrom(oldName, Len(GoPkgPrefix))>>),
         new |-> Join(<<Workspace, root, SliceFrom(newName, Len(GoPkgPrefix))>>),
         calls |-> <<>>]

\* the two paths Rename resolves for a first-party oldName
RenameFirstParty(oldName, newName) ==
    [old |-> Join(<<Workspace, SliceFrom(oldName, Len(GoPkgPrefix))>>),
     new |-> Join(<<Workspace, SliceFrom(newName, Len(GoPkgPrefix))>>),
     calls |-> <<>>]

Rename(oldName, newName) ==
    LET first == HasPrefix(oldName, GoPkgPrefix \o pathSeparator)
    IN  /\ alive
        /\ op' = Request("Rename", oldName, newName, "", "")
        /\ IF first /\ ~CanSlice(newName, Len(GoPkgPrefix))
           THEN \* newName[len(prefix):] panics: the process dies
                /\ alive' = FALSE
                /\ ret' = Reply("PANIC", <<>>, <<>>)
                /\ calls' = <<>>
                /\ fs' = fs
           ELSE LET r == IF first THEN RenameFirstParty(oldName, newName)
                         ELSE RenameVendorLoop(oldName, newName, 1, <<>>)
                IN  /\ alive' = alive
                    /\ IF ~first /\ (r.new = <<>> \/ r.old = <<>>)
                       THEN /\ ret' = Reply("ENOSYS", <<>>, <<>>)
                            /\ calls' = r.calls
                            /\ fs' = fs
                       ELSE IF RenameOK(r.old, r.new)
                       THEN /\ ret' = Reply("OK", <<>>, <<>>)
                            /\ calls' = Append(r.calls, Call("Rename", r.old, r.new, TRUE))
                            /\ fs' = FsRename(r.old, r.new)
                       ELSE /\ ret' = Reply("ENOSYS", <<>>, <<>>)
                            /\ calls' = Append(r.calls, Call("Rename", r.old, r.new, FALSE))
                            /\ fs' = fs
        /\ UNCHANGED <<cfg, cwd>>

(* ------------------------------------------------------------------ *)
(* Requests and initial trees                                          *)
(* ------------------------------------------------------------------ *)
VPath(segs) == JoinSegs(segs)

\* virtual paths the driver asks about
RootPath == <<>>

SrcD == VPath(<<GoPkgPrefix, <<"d">> >>)

SrcDX == VPath(<<GoPkgPrefix, <<"d">>, <<"x">> >>)

SrcDY == VPath(<<GoPkgPrefix, <<"d">>, <<"y">> >>)

SrcDXK == VPath(<<GoPkgPrefix, <<"d">>, <<"x">>, <<"k">> >>)

SrcGorootX == VPath(<<GoPkgPrefix, GOROOT, <<"x">> >>)

D == <<"d">>

DX == VPath(<<D, <<"x">> >>)

DY == VPath(<<D, <<"y">> >>)

DXY == DX \o <<"y">>

T == <<"t">>

TX == VPath(<<T, <<"x">> >>)

ListNames == {RootPath, GoPkgPrefix, SrcD, D, T}

MkdirNames == {GoPkgPrefix, SrcD, D, SrcDX}

RmdirNames == {GoPkgPrefix, SrcD, D, SrcDXK}

FileNames == {SrcDX, DX, TX, SrcGorootX}

MutFileNames == {SrcDX, DX}

RenameOlds == {SrcDX, DX}

RenameNews == {SrcDY, DY, DXY, D}

Cwds == {Workspace, pathSeparator}

\* the subsets of S with at most k elements
RECURSIVE UpTo(_, _)
UpTo(S, k) ==
    IF k = 0 THEN {{}}
    ELSE LET prev == UpTo(S, k - 1) IN prev \cup {X \cup {e} : X \in prev, e \in S}

\* a tree holding the entries of L, every directory above them, and the workspace
MkTree(L) ==
    LET dom == DOMAIN L \cup UNION {Ancestors(p) : p \in DOMAIN L}
               \cup {pathSeparator, Workspace}
    IN  [q \in dom |-> IF q \in DOMAIN L THEN L[q] ELSE DirAttr]

Consistent(L) == \A p \in DOMAIN L : \A q \in Ancestors(p) \cap DOMAIN L : L[q].dir

Trees(paths, attrs) ==
    {MkTree(L) : L \in {M \in UNION {[S -> attrs] : S \in UpTo(paths, MaxFiles)} : Consistent(M)}}

\* the backing locations of virtual path rel under the workspace and the vendors
Candidates(vendors, first, rel) ==
    {Join(<<Workspace, first>>), Join(<<Workspace, Genfiles, first>>)}
    \cup {Join(<<Workspace, vendors[i], rel>>) : i \in DOMAIN vendors}
    \cup {Join(<<Workspace, Genfiles, vendors[i], rel>>) : i \in DOMAIN vendors}

\* trees for listings of src/d, of d, of t and of the root
DirTrees(vendors) ==
    LET dirs == Candidates(vendors, D, D)
    IN  Trees(dirs \cup {Join(<<dir, n>>) : dir \in dirs, n \in {<<"x">>, T}},
              {FileAttr(TRUE, TRUE), DirAttr})
        \cup Trees({Join(<<Workspace, T>>), Join(<<Workspace, TX>>)},
                   {FileAttr(TRUE, TRUE), DirAttr})

FileAttrs == {FileAttr(TRUE, TRUE), FileAttr(TRUE, FALSE), FileAttr(FALSE, FALSE)}

\* trees for opens of src/d/x, d/x, t/x and src/GOROOT/x
FileTrees(vendors) ==
    Trees(Candidates(vendors, DX, DX), FileAttrs)
    \cup Trees({Join(<<Workspace, TX>>), Join(<<GoSDKDir, <<"x">> >>)}, FileAttrs \cup {DirAttr})

\* trees for Mkdir, Rmdir, Create and Unlink of src, src/d, d, src/d/x and d/x
MutTrees(vendors) ==
    Trees({Join(<<Workspace, D>>), Join(<<Workspace, DX>>)}
          \cup {Join(<<Workspace, vendors[i], D>>) : i \in DOMAIN vendors}
          \cup {Join(<<Workspace, vendors[i], DX>>) : i \in DOMAIN vendors},
          {FileAttr(TRUE, TRUE), DirAttr})

\* trees for renames of src/d/x and d/x
RenameTrees(vendors) ==
    Trees({Join(<<Workspace, DX>>), Join(<<Workspace, SliceFrom(SrcDY, Len(GoPkgPrefix))>>)}
          \cup {Join(<<Workspace, vendors[i], DX>>) : i \in DOMAIN vendors}
          \cup {Join(<<Workspace, vendors[i], DY>>) : i \in DOMAIN vendors},
          {FileAttr(TRUE, TRUE), DirAttr})

InitWith(trees, cwds) ==
    /\ cfg \in Configs
    /\ fs \in trees[cfg.Vendors]
    /\ cwd \in cwds
    /\ alive = TRUE
    /\ op = Request("", <<>>, <<>>, "", "")
    /\ ret = Reply("", <<>>, <<>>)
    /\ calls = <<>>

\* listings
NextDir == \E name \in ListNames : OpenDir(name)

\* opens
NextFile == \E name \in FileNames, flags \in OpenFlags : Open(name, flags)

\* creations and removals
NextMut ==
    \/ \E name \in MkdirNames : Mkdir(name)
    \/ \E name \in RmdirNames : Rmdir(name)
    \/ \E name \in MutFileNames, flags \in {"O_WRONLY"}, mode \in Modes : Create(name, flags, mode)
    \/ \E name \in MutFileNames : Unlink(name)

\* renames
NextRename == \E oldName \in RenameOlds, newName \in RenameNews : Rename(oldName, newName)

Init == InitWith([v \in VendorLists |-> MutTrees(v)], Cwds)

Next == NextDir \/ NextFile \/ NextMut \/ NextRename

Spec == Init /\ [][Next]_vars

InitDir == InitWith([v \in VendorLists |-> DirTrees(v)], {Workspace})

SpecDir == InitDir /\ [][NextDir]_vars

InitFile == InitWith([v \in VendorLists |-> FileTrees(v)], {Workspace})

SpecFile == InitFile /\ [][NextFile]_vars

InitMut == InitWith([v \in VendorLists |-> MutTrees(v)], {Workspace})

SpecMut == InitMut /\ [][NextMut]_vars

InitRename == InitWith([v \in VendorLists |-> RenameTrees(v)], Cwds)

SpecRename == InitRename /\ [][NextRename]_vars

(* ------------------------------------------------------------------ *)
(* Properties                                                          *)
(* ------------------------------------------------------------------ *)
Slash(a, b) == a \o pathSeparator \o b

IsFirstPartyChild(name) == HasPrefix(name, Slash(GoPkgPrefix, <<>>))

Relative(name) == SubSeq(name, Len(GoPkgPrefix) + 2, Len(name))

IsPassThrough(name) ==
    \E i \in DOMAIN cfg.FallThrough : HasPrefix(name, cfg.FallThrough[i])

IsVendorChild(name) ==
    /\ name # <<>> /\ name # GoPkgPrefix
    /\ ~IsFirstPartyChild(name) /\ ~IsPassThrough(name)

Count(entries, n) == Cardinality({i \in DOMAIN entries : entries[i].Name = n})

NamesIn(tree, dir) == {Base(p) : p \in Children(tree, dir)}

\* workspaceRoot/v1/p, workspaceRoot/<genfiles>/v1/p, workspaceRoot/v2/p, ...
VendorCandidates(name) ==
    [k \in 1..(2 * Len(cfg.Vendors)) |->
        IF k % 2 = 1 THEN Slash(Slash(Workspace, cfg.Vendors[(k + 1) \div 2]), name)
        ELSE Slash(Slash(Slash(Workspace, Genfiles), cfg.Vendors[k \div 2]), name)]

\* workspaceRoot/rel, workspaceRoot/<genfiles>/rel
FirstPartyCandidates(name) ==
    <<Slash(Workspace, Relative(name)), Slash(Slash(Workspace, Genfiles), Relative(name))>>

CandidatesOf(name) ==
    IF IsFirstPartyChild(name) THEN FirstPartyCandidates(name) ELSE VendorCandidates(name)

\* the first index of seq that satisfies P, 0 when none does
FirstIndex(seq, P(_)) ==
    IF \E k \in DOMAIN seq : P(seq[k])
    THEN CHOOSE k \in DOMAIN seq : P(seq[k]) /\ \A j \in 1..(k - 1) : ~P(seq[j])
    ELSE 0

IsMutation(fn) == fn \in {"MkdirAll", "RemoveAll", "Create", "Chmod", "Remove", "Rename"}

\* C1: a listing of src/rel holds every name of workspaceRoot/rel and of
\* workspaceRoot/bazel-genfiles/rel exactly once (pass-through names apart),
\* and a name found in both carries the type it has in workspaceRoot/rel.
C1_UnionOnce ==
    (op.fn = "OpenDir" /\ IsFirstPartyChild(op.name)) =>
        LET c == FirstPartyCandidates(op.name)
            names == (NamesIn(fs, c[1]) \cup NamesIn(fs, c[2])) \ FallThroughSet
        IN  \A n \in names :
              /\ Count(ret.entries, n) = 1
              /\ Slash(c[1], n) \in DOMAIN fs =>
                    \A i \in DOMAIN ret.entries :
                        ret.entries[i].Name = n =>
                            ret.entries[i] = DirEntry(n, fs[Slash(c[1], n)].dir)

\* C2: no listing merged from workspace, vendor or genfiles directories holds
\* a pass-through name contributed by those directories; the root listing holds
\* such a name only as the entry of the pass-through path itself.
C2_NoPassThroughName ==
    /\ (op.fn = "OpenDir" /\ (IsFirstPartyChild(op.name) \/ IsVendorChild(op.name))) =>
          \A i \in DOMAIN ret.entries : ret.entries[i].Name \notin FallThroughSet
    /\ (op.fn = "OpenDir" /\ op.name = <<>>) =>
          \A n \in FallThroughSet :
              Count(ret.entries, n) = IF Slash(Workspace, n) \in DOMAIN fs THEN 1 ELSE 0

\* C3: a listing of a vendor path holds every name (pass-through names apart)
\* found under any vendor or its genfiles shadow, and fails with NotFound
\* exactly when none of those directories can be listed.
C3_EveryVendorListed ==
    (op.fn = "OpenDir" /\ IsVendorChild(op.name)) =>
        LET c == VendorCandidates(op.name)
            listable == {k \in DOMAIN c : c[k] \in DOMAIN fs /\ fs[c[k]].dir}
        IN  /\ \A k \in listable : \A n \in NamesIn(fs, c[k]) \ FallThroughSet :
                  Count(ret.entries, n) >= 1
            /\ (ret.status = "ENOENT") <=> (listable = {})

C5_PermissionStops ==
    (op.fn = "Open" /\ op.flags \in O_ANYWRITE
        /\ (IsVendorChild(op.name)
            \/ (IsFirstPartyChild(op.name) /\ ~HasPrefix(Relative(op.name), GOROOT)))) =>
        LET c == CandidatesOf(op.name)
            Exists(q) == q \in DOMAIN fs
            k == FirstIndex(c, Exists)
        IN  (k # 0 /\ ~fs[c[k]].w) =>
               /\ ret.status = "EPERM"
               /\ \A i \in DOMAIN calls : \A j \in (k + 1)..Len(c) : calls[i].path # c[j]

\* C6: Mkdir, Rmdir, Create and Unlink mutate one path only: workspaceRoot/rel
\* for a first-party path, workspaceRoot/vendorRoots[0]/path for any other, and
\* nothing at all when there is no vendor root.
C6_OneTarget ==
    (op.fn \in {"Mkdir", "Rmdir", "Create", "Unlink"}) =>
        LET first == op.name = GoPkgPrefix \/ IsFirstPartyChild(op.name)
            target == IF op.name = GoPkgPrefix THEN Workspace
                      ELSE IF first THEN Slash(Workspace, Relative(op.name))
                      ELSE Slash(Slash(Workspace, cfg.Vendors[1]), op.name)
        IN  IF ~first /\ cfg.Vendors = <<>>
            THEN calls = <<>> /\ ret.status # "OK"
            ELSE \A i \in DOMAIN calls : IsMutation(calls[i].fn) => calls[i].path = target

\* C7: a rename between two first-party paths src/a and src/b issues exactly
\* one native rename, from workspaceRoot/a to workspaceRoot/b, whatever the
\* vendor list and the vendor directories hold, and succeeds exactly when that
\* native rename does.
C7_FirstPartyRename ==
    (op.fn = "Rename" /\ IsFirstPartyChild(op.name) /\ IsFirstPartyChild(op.newName)) =>
        /\ Len(calls) = 1
        /\ calls[1].fn = "Rename"
        /\ calls[1].path = Slash(Workspace, Relative(op.name))
        /\ calls[1].path2 = Slash(Workspace, Relative(op.newName))
        /\ (ret.status = "OK") <=> calls[1].ok
        /\ ret.status \in {"OK", "ENOSYS"}

\* C7 witness: with vendors configured and a vendor directory holding the same
\* name, src/d/x was renamed to src/d/y inside the workspace.
C7_Witness ==
    /\ op.fn = "Rename" /\ op.name = SrcDX /\ op.newName = SrcDY
    /\ Len(cfg.Vendors) >= 1
    /\ Slash(Slash(Workspace, cfg.Vendors[1]), DX) \in DOMAIN fs
    /\ ret.status = "OK"
    /\ Slash(Workspace, DY) \in DOMAIN fs
    /\ Slash(Workspace, DX) \notin DOMAIN fs

\* C8: a rename whose two paths are of different root kinds fails: it issues
\* no native rename and does not crash.
C8_CrossKindFails ==
    (op.fn = "Rename" /\ IsFirstPartyChild(op.name) # IsFirstPartyChild(op.newName)) =>
        /\ alive
        /\ ret.status \notin {"OK", "PANIC"}
        /\ \A i \in DOMAIN calls : calls[i].fn # "Rename"

\* C9: Rmdir of a first-party directory that is absent from the workspace
\* fails and leaves the trees as they are.
C9_AbsentRmdirFails ==
    [][(op'.fn = "Rmdir" /\ IsFirstPartyChild(op'.name)
          /\ Slash(Workspace, Relative(op'.name)) \notin DOMAIN fs) =>
            (ret'.status \in {"ENOENT", "EIO"} /\ fs' = fs)]_vars

\* C10: a rename of a path that is not first-party renames workspaceRoot/v/old
\* to workspaceRoot/v/new for the first vendor v under which old exists, and
\* fails without any native rename when there is no such vendor.
C10_VendorRename ==
    [][(op'.fn = "Rename" /\ ~IsFirstPartyChild(op'.name)) =>
          LET found == {i \in DOMAIN cfg.Vendors :
                          Slash(Slash(Workspace, cfg.Vendors[i]), op'.name) \in DOMAIN fs}
          IN  IF found = {}
              THEN /\ ret'.status # "OK"
                   /\ \A i \in DOMAIN calls' : calls'[i].fn # "Rename"
              ELSE LET v == cfg.Vendors[CHOOSE i \in found : \A j \in found : i <= j]
                   IN  \E i \in DOMAIN calls' :
                          /\ calls'[i].fn = "Rename"
                          /\ calls'[i].path = Slash(Slash(Workspace, v), op'.name)
                          /\ calls'[i].path2 = Slash(Slash(Workspace, v), op'.newName)]_vars

====
